---- MODULE Spec2Model ----
(***************************************************************************)
(* Simple-GUI.py: the encode worker thread (encode_thread) and the GUI     *)
(* event loop (the_gui) that feeds it.  The two threads share the job      *)
(* list's executable queue (encode_queue), the lifecycle event queue       *)
(* (encode_event) and three threading.Event flags.                         *)
(***************************************************************************)
EXTENDS Integers, Sequences, FiniteSets, TLC

\* ------------------------------------------------------------------ bounds
\* Number of 'Start encode' clicks (job uuids are 1..MaxJobs).
MaxJobs == 2
\* The observer stops editing the list once this many job executions are due.
MaxRuns == 2
\* The observer stops pausing/resuming while this many _skip are queued.
MaxSkips == 1
\* Number of 'Start encode' clicks in the list-handler specification ListSpec.
MaxList == 3
\* Lines a process prints before its output ends, in JobSpec.
MaxLines == 3
\* Largest frame number and frame count of an input file, in JobSpec.
MaxFrames == 2

VARIABLES
    encode_list,          \* the_gui: the displayed job list (dicts uuid/status)
    encode_queue,         \* queue.Queue of jobs, _skip and _sentinel
    encode_event,         \* queue.Queue of {"uuid", "event"} lifecycle events
    stoprequest,          \* threading.Event: kill the running encode
    encode_running,       \* threading.Event: an encode is running
    encode_queue_active,  \* threading.Event: the queue is not paused
    pc,                   \* encode_thread: position of the worker
    job_id,               \* encode_thread: uuid of the job last dequeued (0: none)
    process,              \* encode_thread: state of the Popen object
    overlap,              \* the previous job's process is alive beside the new one
    gui_pc,               \* the_gui: position of the event loop
    next_uuid,            \* uuids handed out so far + 1
    starts,               \* history: started events emitted, per uuid
    killed,               \* history: what request killed the current/last run
    stop_src,             \* history: when the pending stoprequest was set
    emitted,              \* history: the last event put on encode_event
    last_op,              \* history: the last list handler, its selection and
                          \* the list it was applied to (kept by ListSpec)
    run                   \* the values of one job's run (kept by JobSpec), a
                          \* record of the fields defined below

vars == <<encode_list, encode_queue, encode_event, stoprequest, encode_running,
          encode_queue_active, pc, job_id, process, overlap, gui_pc,
          next_uuid, starts, killed, stop_src, emitted, last_op, run>>

\* the variables of one job's run in detail (kept by JobSpec)
jobvars == <<run>>

\* the_gui: the dict filled from the loaded input file
video_metadata == run.video_metadata
\* the job dict's test_encode, and (history) the content of its "metadata"
\* when it was enqueued
params == run.params
\* encode_thread: local total_frames of the run
total_frames == run.total_frames
\* encode_thread: the line last read from the output
line == run.line
\* history: the exception that ended the thread
error == run.error
\* deque(maxlen=1) of progress samples
status_deque == run.status_deque
\* the_gui: number of the sample in the status box
shown == run.shown
\* history: where the worker was when the stop was requested, and the lines
\* read since
late == run.late
\* history: lines read from the process output
nread == run.nread
\* history: items appended to status_deque
published == run.published


Ids == 1..MaxJobs

\* ------------------------------------------------------------- queue items
_sentinel == [kind |-> "sentinel", uuid |-> 0]
_skip == [kind |-> "skip", uuid |-> 0]
JobItem(id) == [kind |-> "job", uuid |-> id]

waiting == "waiting"
started == "started"
finished == "finished"

\* nothing was put on encode_event yet / no list handler has run yet
NoEvent == [uuid |-> 0, event |-> "none"]
\* Python's None
None == "None"
\* lines 344-352: video_metadata before any input file was loaded
NoMetadata == [contains_video |-> FALSE, frame_count |-> None, size |-> None]
\* no line read yet / the end of the stream (readline returns '')
NoLine == [kind |-> "none", frame |-> "", size |-> <<>>]
EndOfStream == [kind |-> "", frame |-> "", size |-> <<>>]
\* no exception raised
NoError == "none"
\* no line of either kind
NoLines == [at |-> "none", pre |-> 0, fra |-> 0]
NoOp == [name |-> "none", sel |-> {}, before |-> <<>>, queue |-> <<>>]

\* ------------------------------------------------------------- pure helpers
RECURSIVE SumStarts(_, _)
SumStarts(f, S) ==
    IF S = {} THEN 0
    ELSE LET x == CHOOSE y \in S : TRUE IN f[x] + SumStarts(f, S \ {x})

Runs == SumStarts(starts, Ids)

Pop(list, i) == SubSeq(list, 1, i - 1) \o SubSeq(list, i + 1, Len(list))

\* Insert as it would be if it overwrote the entry at i
Insert_Replace(list, i, x) ==
    IF i > Len(list) THEN Append(list, x)
    ELSE [list EXCEPT ![i] = x]

Insert(list, i, x) ==
    IF i > Len(list) THEN Append(list, x)
    ELSE SubSeq(list, 1, i - 1) \o <<x>> \o SubSeq(list, i, Len(list))

UuidsOf(list) == {list[i].uuid : i \in 1..Len(list)}

\* clear_queue(q)
clear_queue(q) == <<>>

\* build_encode_queue(): clear, then put every waiting entry in list order
RECURSIVE PutWaiting(_, _, _)
PutWaiting(q, list, i) ==
    IF i > Len(list) THEN q
    ELSE IF list[i].status = waiting
         THEN PutWaiting(Append(q, JobItem(list[i].uuid)), list, i + 1)
         ELSE PutWaiting(q, list, i + 1)

\* build_encode_queue as it would be without the test of the status
build_AllEntries(q, list) == [i \in 1..Len(list) |-> JobItem(list[i].uuid)]

build_encode_queue(q, list) == PutWaiting(clear_queue(q), list, 1)

\* RemoveLoop as it would be without the test of the status
RECURSIVE RemoveLoop_NoGuard(_, _, _)
RemoveLoop_NoGuard(list, id, i) ==
    IF i > Len(list) THEN list
    ELSE IF list[i].uuid = id
         THEN RemoveLoop_NoGuard(Pop(list, i), id, i + 1)
         ELSE RemoveLoop_NoGuard(list, id, i + 1)

\* 'Remove task': for i, job in enumerate(encode_list): pop(i) when the uuid
\* matches and the job is not started (the list is edited while it is walked)
RECURSIVE RemoveLoop(_, _, _)
RemoveLoop(list, id, i) ==
    IF i > Len(list) THEN list
    ELSE IF list[i].uuid = id /\ list[i].status # started
         THEN RemoveLoop(Pop(list, i), id, i + 1)
         ELSE RemoveLoop(list, id, i + 1)

RECURSIVE RemoveAll(_, _)
RemoveAll(list, sel) ==
    IF sel = {} THEN list
    ELSE LET id == CHOOSE x \in sel : TRUE
         IN RemoveAll(RemoveLoop(list, id, 1), sel \ {id})

\* UpLoop as it would be if the job were put at the head of the list
RECURSIVE UpLoop_ToFront(_, _, _)
UpLoop_ToFront(list, id, i) ==
    IF i > Len(list) THEN list
    ELSE IF list[i].uuid = id /\ i # 1
         THEN UpLoop_ToFront(Insert(Pop(list, i), 1, list[i]), id, i + 1)
         ELSE UpLoop_ToFront(list, id, i + 1)

\* 'UP': encode_list.insert(i - 1, encode_list.pop(i)) inside the enumerate
RECURSIVE UpLoop(_, _, _)
UpLoop(list, id, i) ==
    IF i > Len(list) THEN list
    ELSE IF list[i].uuid = id /\ i # 1
         THEN UpLoop(Insert(Pop(list, i), i - 1, list[i]), id, i + 1)
         ELSE UpLoop(list, id, i + 1)

\* 'DOWN': encode_list.insert(i + 1, encode_list.pop(i)) inside the enumerate
RECURSIVE DownLoop(_, _, _)
DownLoop(list, id, i) ==
    IF i > Len(list) THEN list
    ELSE IF list[i].uuid = id /\ i # Len(list)
         THEN DownLoop(Insert(Pop(list, i), i + 1, list[i]), id, i + 1)
         ELSE DownLoop(list, id, i + 1)

\* the job-event block of the event loop: every entry with the event's uuid
\* takes the event's name as its status
ApplyEvent(list, ev) ==
    [i \in 1..Len(list) |->
        IF list[i].uuid = ev.uuid THEN [list[i] EXCEPT !.status = ev.event]
        ELSE list[i]]

\* ------------------------------------------------------------------- Init
Init ==
    /\ encode_list = <<>>
    /\ encode_queue = <<>>
    /\ encode_event = <<>>
    /\ stoprequest = FALSE
    /\ encode_running = FALSE
    /\ encode_queue_active = TRUE
    /\ pc = "gate"
    /\ job_id = 0
    /\ process = "none"
    /\ overlap = FALSE
    /\ gui_pc = "read"
    /\ next_uuid = 1
    /\ starts = [i \in Ids |-> 0]
    /\ killed = "no"
    /\ stop_src = "none"
    /\ emitted = NoEvent
    /\ last_op = NoOp
    /\ run = [video_metadata |-> NoMetadata,
              params |-> [test_encode |-> 0, enqueued |-> NoMetadata],
              total_frames |-> 0,
              line |-> NoLine,
              error |-> NoError,
              status_deque |-> <<>>,
              shown |-> 0,
              late |-> NoLines,
              nread |-> 0,
              published |-> 0]

\* ---------------------------------------------------------- encode_thread
\* positions between the spawn of the process and the clearing of the flags
RunPcs == {"preamble", "progress", "readline", "post"}

\* a process that was not seen to end (its stream did not reach EOF) may
\* still be alive: nothing waits for it, not even after kill()
MayBeAlive(p) == p \in {"running", "killed"}

\* Gate as it would be if the worker waited on the wrong Event object
Gate_WaitsStop ==
    /\ UNCHANGED <<emitted, last_op, jobvars>>
    /\ pc = "gate"
    /\ stoprequest
    /\ pc' = "get"
    /\ UNCHANGED <<encode_list, encode_queue, encode_event, stoprequest,
                   encode_running, encode_queue_active, job_id, process,
                   overlap, gui_pc, next_uuid, starts, killed, stop_src>>

\* lines 101-102: if not encode_queue_active.is_set(): encode_queue_active.wait()
Gate ==
    /\ UNCHANGED <<emitted, last_op, jobvars>>
    /\ pc = "gate"
    /\ encode_queue_active
    /\ pc' = "get"
    /\ UNCHANGED <<encode_list, encode_queue, encode_event, stoprequest,
                   encode_running, encode_queue_active, job_id, process,
                   overlap, gui_pc, next_uuid, starts, killed, stop_src>>

\* lines 104-108: params = encode_queue.get() returns _sentinel (break) or
\* _skip (continue)
Get ==
    /\ UNCHANGED <<emitted, last_op, jobvars>>
    /\ pc = "get"
    /\ encode_queue # <<>>
    /\ Head(encode_queue).kind # "job"
    /\ encode_queue' = Tail(encode_queue)
    /\ pc' = (IF Head(encode_queue) = _sentinel THEN "done" ELSE "gate")
    /\ UNCHANGED <<encode_list, encode_event, stoprequest, encode_running,
                   encode_queue_active, job_id, process, overlap, gui_pc,
                   next_uuid, starts, killed, stop_src>>

\* lines 104-124: params = encode_queue.get() returns a job: emit its started
\* event, set encode_running, spawn the process (Popen raises when the encoder
\* cannot be launched: the thread dies)
StartJob ==
    /\ pc = "get"
    /\ encode_queue # <<>>
    /\ Head(encode_queue).kind = "job"
    /\ encode_queue' = Tail(encode_queue)
    /\ job_id' = Head(encode_queue).uuid
    /\ encode_event' = Append(encode_event,
                              [uuid |-> Head(encode_queue).uuid, event |-> started])
    /\ encode_running' = TRUE
    /\ starts' = [starts EXCEPT ![Head(encode_queue).uuid] = @ + 1]
    /\ killed' = "no"
    /\ emitted' = [uuid |-> Head(encode_queue).uuid, event |-> started]
    /\ UNCHANGED <<last_op, jobvars>>
    /\ \/ /\ process' = "running"
          /\ overlap' \in (IF MayBeAlive(process) THEN {TRUE, FALSE} ELSE {FALSE})
          /\ pc' = "preamble"
       \/ /\ pc' = "crashed"
          /\ UNCHANGED <<process, overlap>>
    /\ UNCHANGED <<encode_list, stoprequest, encode_queue_active, gui_pc,
                   next_uuid, stop_src>>

\* lines 129-135: for line in process.stdout: a line that is not a "fra" line
\* is appended to msg; the loop is left on the first "fra" line or when the
\* stream ends
ReadPreamble ==
    /\ UNCHANGED <<emitted, last_op, jobvars>>
    /\ pc = "preamble"
    /\ \/ pc' = "preamble" /\ process' = process
       \/ pc' = "progress" /\ process' = process
       \/ pc' = "progress" /\ process' = "exited"
    /\ overlap' = FALSE
    /\ UNCHANGED <<encode_list, encode_queue, encode_event, stoprequest,
                   encode_running, encode_queue_active, job_id,
                   gui_pc, next_uuid, starts, killed, stop_src>>

\* CheckStop as it would be if the progress loop did not look at stoprequest
CheckStop_NoCheck ==
    /\ pc = "progress"
    /\ pc' = "readline"
    /\ overlap' = FALSE
    /\ UNCHANGED <<encode_list, encode_queue, encode_event, stoprequest,
                   encode_running, encode_queue_active, job_id, process,
                   gui_pc, next_uuid, starts, killed, stop_src, emitted,
                   last_op, jobvars>>

\* lines 145-148: if stoprequest.isSet(): process.kill(); break
CheckStop ==
    /\ UNCHANGED <<emitted, last_op, jobvars>>
    /\ pc = "progress"
    /\ IF stoprequest
       THEN /\ process' = (IF process = "running" THEN "killed" ELSE process)
            /\ killed' = stop_src
            /\ pc' = "post"
       ELSE /\ pc' = "readline"
            /\ UNCHANGED <<process, killed>>
    /\ overlap' = FALSE
    /\ UNCHANGED <<encode_list, encode_queue, encode_event, stoprequest,
                   encode_running, encode_queue_active, job_id,
                   gui_pc, next_uuid, starts, stop_src>>

\* lines 150-178: readline(); a "fra" line is parsed and published; a line
\* that is not a "fra" line, or '' at the end of the stream, ends the phase
ReadLine ==
    /\ UNCHANGED <<emitted, last_op, jobvars>>
    /\ pc = "readline"
    /\ \/ pc' = "progress" /\ process' = process
       \/ pc' = "post" /\ process' = process
       \/ pc' = "post" /\ process' = "exited"
    /\ UNCHANGED <<encode_list, encode_queue, encode_event, stoprequest,
                   encode_running, encode_queue_active, job_id, overlap,
                   gui_pc, next_uuid, starts, killed, stop_src>>

\* lines 180-206: MediaInfo.parse of the output file (raises when the file
\* cannot be inspected: the thread dies), then encode_running.clear() and
\* stoprequest.clear()
ClearFlags ==
    /\ UNCHANGED <<emitted, last_op, jobvars>>
    /\ pc = "post"
    /\ \/ /\ encode_running' = FALSE
          /\ stoprequest' = FALSE
          /\ stop_src' = "none"
          /\ pc' = "emit_finished"
       \/ /\ pc' = "crashed"
          /\ UNCHANGED <<encode_running, stoprequest, stop_src>>
    /\ UNCHANGED <<encode_list, encode_queue, encode_event, encode_queue_active,
                   job_id, process, overlap, gui_pc, next_uuid, starts,
                   killed>>

\* EmitFinished as it would be if the event put were named started
EmitFinished_AsStarted ==
    /\ pc = "emit_finished"
    /\ encode_event' = Append(encode_event,
                              [uuid |-> job_id, event |-> started])
    /\ emitted' = [uuid |-> job_id, event |-> started]
    /\ pc' = "gate"
    /\ UNCHANGED <<encode_list, encode_queue, stoprequest, encode_running,
                   encode_queue_active, job_id, process, overlap, gui_pc,
                   next_uuid, starts, killed, stop_src, last_op, jobvars>>

\* EmitFinished as it would be if the finished event were not put
EmitFinished_NoEvent ==
    /\ UNCHANGED <<emitted, last_op, jobvars>>
    /\ pc = "emit_finished"
    /\ pc' = "gate"
    /\ UNCHANGED <<encode_list, encode_queue, encode_event, stoprequest,
                   encode_running, encode_queue_active, job_id, process,
                   overlap, gui_pc, next_uuid, starts, killed, stop_src>>

\* lines 208-210: encode_event.put({"uuid": job_id, "event": "finished"})
EmitFinished ==
    /\ emitted' = [uuid |-> job_id, event |-> finished]
    /\ UNCHANGED <<last_op, jobvars>>
    /\ pc = "emit_finished"
    /\ encode_event' = Append(encode_event,
                              [uuid |-> job_id, event |-> finished])
    /\ pc' = "gate"
    /\ UNCHANGED <<encode_list, encode_queue, stoprequest, encode_running,
                   encode_queue_active, job_id, process, overlap, gui_pc,
                   next_uuid, starts, killed, stop_src>>

Worker ==
    \/ Gate \/ Get \/ StartJob \/ ReadPreamble \/ CheckStop \/ ReadLine
    \/ ClearFlags \/ EmitFinished

\* ------------------------------------------------------------------ the_gui
SkipCount(q) == Cardinality({i \in 1..Len(q) : q[i] = _skip})

JobCount(q) == Cardinality({i \in 1..Len(q) : q[i].kind = "job"})

\* job executions already made or due once the queue holds q
DueRuns(q) == Runs + JobCount(q)

\* toggle_queue(): flip encode_queue_active
toggle_queue(active) == ~active

\* pause_queue(): clear encode_queue_active when it is set
pause_queue(active) == IF active THEN FALSE ELSE active

\* lines 744-755: take one job event, if any, and set the job's status
PolledList(list) ==
    IF encode_event = <<>> THEN list ELSE ApplyEvent(list, Head(encode_event))

PolledEvents == IF encode_event = <<>> THEN encode_event ELSE Tail(encode_event)

\* window.read(timeout=100) returns no event: the iteration only polls
Timeout ==
    /\ UNCHANGED <<emitted, last_op, jobvars>>
    /\ gui_pc = "read"
    /\ encode_list' = PolledList(encode_list)
    /\ encode_event' = PolledEvents
    /\ UNCHANGED <<encode_queue, stoprequest, encode_running,
                   encode_queue_active, pc, job_id, process, overlap,
                   gui_pc, next_uuid, starts, killed, stop_src>>

\* event 'Start encode': append a waiting job, rebuild the queue
StartEncode ==
    /\ UNCHANGED <<emitted, last_op, jobvars>>
    /\ gui_pc = "read"
    /\ next_uuid <= MaxJobs
    /\ LET list == Append(encode_list, [uuid |-> next_uuid, status |-> waiting])
           q == build_encode_queue(encode_queue, list)
       IN /\ DueRuns(q) <= MaxRuns
          /\ encode_list' = list
          /\ encode_queue' = q
    /\ next_uuid' = next_uuid + 1
    /\ gui_pc' = "poll"
    /\ UNCHANGED <<encode_event, stoprequest, encode_running, encode_queue_active,
                   pc, job_id, process, overlap, starts, killed,
                   stop_src>>

\* event 'Remove task': pop the selected jobs that are not started, rebuild
RemoveTask ==
    /\ UNCHANGED <<emitted, last_op, jobvars>>
    /\ gui_pc = "read"
    /\ \E sel \in SUBSET UuidsOf(encode_list) :
         LET list == RemoveAll(encode_list, sel)
             q == build_encode_queue(encode_queue, list)
         IN /\ DueRuns(q) <= MaxRuns
            /\ encode_list' = list
            /\ encode_queue' = q
    /\ gui_pc' = "poll"
    /\ UNCHANGED <<encode_event, stoprequest, encode_running, encode_queue_active,
                   pc, job_id, process, overlap, next_uuid, starts,
                   killed, stop_src>>

\* event 'UP': one job selected and more than one job in the list
MoveUp ==
    /\ UNCHANGED <<emitted, last_op, jobvars>>
    /\ gui_pc = "read"
    /\ Len(encode_list) > 1
    /\ \E id \in UuidsOf(encode_list) :
         LET list == UpLoop(encode_list, id, 1)
             q == build_encode_queue(encode_queue, list)
         IN /\ DueRuns(q) <= MaxRuns
            /\ encode_list' = list
            /\ encode_queue' = q
    /\ gui_pc' = "poll"
    /\ UNCHANGED <<encode_event, stoprequest, encode_running, encode_queue_active,
                   pc, job_id, process, overlap, next_uuid, starts,
                   killed, stop_src>>

\* event 'DOWN': one job selected and more than one job in the list
MoveDown ==
    /\ UNCHANGED <<emitted, last_op, jobvars>>
    /\ gui_pc = "read"
    /\ Len(encode_list) > 1
    /\ \E id \in UuidsOf(encode_list) :
         LET list == DownLoop(encode_list, id, 1)
             q == build_encode_queue(encode_queue, list)
         IN /\ DueRuns(q) <= MaxRuns
            /\ encode_list' = list
            /\ encode_queue' = q
    /\ gui_pc' = "poll"
    /\ UNCHANGED <<encode_event, stoprequest, encode_running, encode_queue_active,
                   pc, job_id, process, overlap, next_uuid, starts,
                   killed, stop_src>>

\* event 'Stop encode', line 713: stoprequest.set()
StopEncode ==
    /\ UNCHANGED <<emitted, last_op, jobvars>>
    /\ gui_pc = "read"
    /\ stoprequest' = TRUE
    /\ stop_src' = (IF pc \in RunPcs THEN "fresh" ELSE "stale")
    /\ gui_pc' = "stop2"
    /\ UNCHANGED <<encode_list, encode_queue, encode_event, encode_running,
                   encode_queue_active, pc, job_id, process, overlap,
                   next_uuid, starts, killed>>

\* event 'Stop encode', line 714: pause_queue()
StopEncodePause ==
    /\ UNCHANGED <<emitted, last_op, jobvars>>
    /\ gui_pc = "stop2"
    /\ encode_queue_active' = pause_queue(encode_queue_active)
    /\ gui_pc' = "poll"
    /\ UNCHANGED <<encode_list, encode_queue, encode_event, stoprequest,
                   encode_running, pc, job_id, process, overlap,
                   next_uuid, starts, killed, stop_src>>

\* PauseQueue as it would be if pausing also requested a stop
PauseQueue_SetsStop ==
    /\ UNCHANGED <<emitted, last_op, jobvars>>
    /\ gui_pc = "read"
    /\ SkipCount(encode_queue) < MaxSkips
    /\ encode_queue_active' = toggle_queue(encode_queue_active)
    /\ stoprequest' = TRUE
    /\ gui_pc' = "pause2"
    /\ UNCHANGED <<encode_list, encode_queue, encode_event,
                   encode_running, pc, job_id, process, overlap,
                   next_uuid, starts, killed, stop_src>>

\* event 'Pause queue', line 717: toggle_queue()
PauseQueue ==
    /\ UNCHANGED <<emitted, last_op, jobvars>>
    /\ gui_pc = "read"
    /\ SkipCount(encode_queue) < MaxSkips
    /\ encode_queue_active' = toggle_queue(encode_queue_active)
    /\ gui_pc' = "pause2"
    /\ UNCHANGED <<encode_list, encode_queue, encode_event, stoprequest,
                   encode_running, pc, job_id, process, overlap,
                   next_uuid, starts, killed, stop_src>>

\* event 'Pause queue', line 718: encode_queue.put(_skip)
PauseQueuePut ==
    /\ UNCHANGED <<emitted, last_op, jobvars>>
    /\ gui_pc = "pause2"
    /\ encode_queue' = Append(encode_queue, _skip)
    /\ gui_pc' = "poll"
    /\ UNCHANGED <<encode_list, encode_event, stoprequest, encode_running,
                   encode_queue_active, pc, job_id, process, overlap,
                   next_uuid, starts, killed, stop_src>>

\* the end of an iteration that handled an event: the same poll
PollEvent ==
    /\ UNCHANGED <<emitted, last_op, jobvars>>
    /\ gui_pc = "poll"
    /\ encode_list' = PolledList(encode_list)
    /\ encode_event' = PolledEvents
    /\ gui_pc' = "read"
    /\ UNCHANGED <<encode_queue, stoprequest, encode_running,
                   encode_queue_active, pc, job_id, process, overlap,
                   next_uuid, starts, killed, stop_src>>

\* event Exit, lines 516-517 and 769-770: leave the loop, stoprequest.set()
Exit ==
    /\ UNCHANGED <<emitted, last_op, jobvars>>
    /\ gui_pc = "read"
    /\ stoprequest' = TRUE
    /\ stop_src' = "shutdown"
    /\ gui_pc' = "sd_clear"
    /\ UNCHANGED <<encode_list, encode_queue, encode_event, encode_running,
                   encode_queue_active, pc, job_id, process, overlap,
                   next_uuid, starts, killed>>

\* line 772: clear_queue(encode_queue)
ShutdownClear ==
    /\ UNCHANGED <<emitted, last_op, jobvars>>
    /\ gui_pc = "sd_clear"
    /\ encode_queue' = clear_queue(encode_queue)
    /\ gui_pc' = "sd_put"
    /\ UNCHANGED <<encode_list, encode_event, stoprequest, encode_running,
                   encode_queue_active, pc, job_id, process, overlap,
                   next_uuid, starts, killed, stop_src>>

\* line 773: encode_queue.put(_sentinel)
ShutdownPut ==
    /\ UNCHANGED <<emitted, last_op, jobvars>>
    /\ gui_pc = "sd_put"
    /\ encode_queue' = Append(encode_queue, _sentinel)
    /\ gui_pc' = "sd_active"
    /\ UNCHANGED <<encode_list, encode_event, stoprequest, encode_running,
                   encode_queue_active, pc, job_id, process, overlap,
                   next_uuid, starts, killed, stop_src>>

\* line 774: encode_queue_active.set()
ShutdownActive ==
    /\ UNCHANGED <<emitted, last_op, jobvars>>
    /\ gui_pc = "sd_active"
    /\ encode_queue_active' = TRUE
    /\ gui_pc' = "join"
    /\ UNCHANGED <<encode_list, encode_queue, encode_event, stoprequest,
                   encode_running, pc, job_id, process, overlap,
                   next_uuid, starts, killed, stop_src>>

\* line 779: encoder.join() returns once the thread has ended
Join ==
    /\ UNCHANGED <<emitted, last_op, jobvars>>
    /\ gui_pc = "join"
    /\ pc \in {"done", "crashed"}
    /\ gui_pc' = "closed"
    /\ UNCHANGED <<encode_list, encode_queue, encode_event, stoprequest,
                   encode_running, encode_queue_active, pc, job_id, process,
                   overlap, next_uuid, starts, killed, stop_src>>

Gui ==
    \/ Timeout \/ StartEncode \/ RemoveTask \/ MoveUp \/ MoveDown
    \/ StopEncode \/ StopEncodePause \/ PauseQueue \/ PauseQueuePut
    \/ PollEvent \/ Exit \/ ShutdownClear \/ ShutdownPut \/ ShutdownActive
    \/ Join

\* ------------------------------------------------------------ specification
Next == Worker \/ Gui

Spec == Init /\ [][Next]_vars

\* the worker thread is scheduled whenever it can take a step: a read of the
\* process output returns (the stream yields a line or ends) and a blocking
\* get() returns once the queue holds an item
FairSpec == Spec /\ WF_vars(Worker)

\* the output of an encoder process ends: the progress phase is left by a
\* read that finds a line that is not a progress line, or the end of stream
StreamEnds == ReadLine /\ pc' = "post"

\* ------------------------------------------------- the list handlers alone
\* The handlers of the queue buttons applied to lists of up to MaxList jobs.
\* The worker is reduced to what the handlers see of it: the head job of
\* encode_queue is taken and its started event applied (ListRun), and the
\* finished event of the started job is applied (ListFinish).  last_op keeps
\* the handler that ran last, its selection, and the list and queue it found.
ListFrame ==
    UNCHANGED <<encode_event, stoprequest, encode_running, encode_queue_active,
                pc, job_id, process, overlap, gui_pc, starts, killed,
                stop_src, emitted, jobvars>>

Op(name, sel) ==
    [name |-> name, sel |-> sel, before |-> encode_list, queue |-> encode_queue]

\* event 'Start encode' (lines 693-709)
ListStart ==
    /\ next_uuid <= MaxList
    /\ encode_list' = Append(encode_list, [uuid |-> next_uuid, status |-> waiting])
    /\ encode_queue' = build_encode_queue(encode_queue, encode_list')
    /\ next_uuid' = next_uuid + 1
    /\ last_op' = Op("Start encode", {next_uuid})
    /\ ListFrame

\* event 'Remove task' (lines 660-669)
ListRemove ==
    /\ \E sel \in SUBSET UuidsOf(encode_list) :
         /\ encode_list' = RemoveAll(encode_list, sel)
         /\ last_op' = Op("Remove task", sel)
    /\ encode_queue' = build_encode_queue(encode_queue, encode_list')
    /\ UNCHANGED next_uuid
    /\ ListFrame

\* event 'UP' (lines 671-679)
ListUp ==
    /\ Len(encode_list) > 1
    /\ \E id \in UuidsOf(encode_list) :
         /\ encode_list' = UpLoop(encode_list, id, 1)
         /\ last_op' = Op("UP", {id})
    /\ encode_queue' = build_encode_queue(encode_queue, encode_list')
    /\ UNCHANGED next_uuid
    /\ ListFrame

\* event 'DOWN' (lines 681-689)
ListDown ==
    /\ Len(encode_list) > 1
    /\ \E id \in UuidsOf(encode_list) :
         /\ encode_list' = DownLoop(encode_list, id, 1)
         /\ last_op' = Op("DOWN", {id})
    /\ encode_queue' = build_encode_queue(encode_queue, encode_list')
    /\ UNCHANGED next_uuid
    /\ ListFrame

\* the worker takes the head job (line 104) and the GUI applies its started
\* event (lines 744-755)
ListRun ==
    /\ encode_queue # <<>>
    /\ \A i \in 1..Len(encode_list) : encode_list[i].status # started
    /\ encode_queue' = Tail(encode_queue)
    /\ encode_list' = ApplyEvent(encode_list,
                         [uuid |-> Head(encode_queue).uuid, event |-> started])
    /\ last_op' = Op("event", {Head(encode_queue).uuid})
    /\ UNCHANGED next_uuid
    /\ ListFrame

\* the worker puts the finished event of the job it runs (line 208) and the
\* GUI applies it (lines 744-755)
ListFinish ==
    /\ \E i \in 1..Len(encode_list) :
         /\ encode_list[i].status = started
         /\ encode_list' = ApplyEvent(encode_list,
                              [uuid |-> encode_list[i].uuid, event |-> finished])
         /\ last_op' = Op("event", {encode_list[i].uuid})
    /\ UNCHANGED <<encode_queue, next_uuid>>
    /\ ListFrame

ListNext ==
    \/ ListStart \/ ListRemove \/ ListUp \/ ListDown \/ ListRun \/ ListFinish

ListSpec == Init /\ [][ListNext]_vars

\* ------------------------------------------------- one job's run in detail
\* One job from the load of its input file to its finished event: the values
\* the worker computes from the job's fields and from each progress line, the
\* status_deque and the stop request.  Numbers that reach the program as text
\* (mediainfo fields, fields of a progress line) are strings here.
Digits == <<"0", "1", "2", "3", "4", "5", "6", "7", "8", "9">>

Str(n) == Digits[n + 1]

\* int(x) returns a number for these and raises for anything else
IsNumeral(x) == \E n \in 0..9 : Digits[n + 1] = x

int(x) == CHOOSE n \in 0..9 : Digits[n + 1] = x

\* what mediainfo can report of an input file that has a video track
Files ==
    [contains_video : {TRUE},
     frame_count : {None} \cup {Str(n) : n \in 1..MaxFrames},
     size : {None, "5"}]

\* "test_encode": int(params["n_frames"]), or False (which is 0 in Python)
TestEncodes == 0..1

\* the lines a process can print: one that does not start with "fra", and
\* progress lines "frame= d fps=.. q=.. size= s time=.."
ProgressLines ==
    [kind : {"fra"},
     frame : {Str(n) : n \in 0..MaxFrames},
     size : {<<"N/A">>, <<"2", "kB">>}]

OtherLine == [kind |-> "other", frame |-> "", size |-> <<>>]

\* split[4].replace("kB", ""): the size field without its unit
replace_kB(field) == SelectSeq(field, LAMBDA tok : tok # "kB")

\* deque(maxlen=1): status_deque
maxlen == 1

\* deque.append(x): the oldest item is discarded when the deque is full
append_unbounded(dq, x) == Append(dq, x)

append(dq, x) ==
    IF Len(dq) + 1 > maxlen THEN Tail(Append(dq, x)) ELSE Append(dq, x)

\* fractions num/den with den > 0, for the float arithmetic of lines 166, 175
Frac(n, d) == [num |-> n, den |-> d]

\* line 166: 100 - (((total_frames - done_frames) / total_frames) * 100)
percent_left(total, done) == Frac((total - done) * 100, total)

percent_done(total, done) == Frac(100 * total - (total - done) * 100, total)

\* line 175: ((cur_size * 100) / percent_done) / 1024
est_size(cur_size, percent) ==
    Frac(cur_size * 100 * percent.den, percent.num * 1024)

\* line 164: if total_frames: percent_done is computed, else it stays float(0)
percent_of(total, done) ==
    IF total # 0 THEN percent_done(total, done) ELSE Frac(0, 1)

\* line 170: the divisor of the rate, (1 if done_frames == 0 else done_frames)
rate_divisor(done) == IF done = 0 THEN 1 ELSE done

\* line 173: if type(percent_done) is not str and percent_done > 0
size_guard(percent) == percent.num > 0

\* lines 173-175: the estimate of the final size, or the exception raised
\* while computing it
Estimate(field, percent) ==
    IF ~size_guard(percent)
    THEN [error |-> NoError, evaluated |-> FALSE, est |-> Frac(0, 1)]
    ELSE IF ~(Len(replace_kB(field)) = 1 /\ IsNumeral(replace_kB(field)[1]))
    THEN [error |-> "ValueError", evaluated |-> FALSE, est |-> Frac(0, 1)]
    ELSE IF percent.num = 0
    THEN [error |-> "ZeroDivisionError", evaluated |-> FALSE, est |-> Frac(0, 1)]
    ELSE [error |-> NoError, evaluated |-> TRUE,
          est |-> est_size(int(replace_kB(field)[1]), percent)]

\* line 177: the progress sample of line l; line 210: end_string
Sample(l, total, n) ==
    [seq |-> n, kind |-> "progress", frame |-> l.frame, total |-> total,
     percent |-> percent_of(total, int(l.frame)),
     divisor |-> rate_divisor(int(l.frame)),
     evaluated |-> Estimate(l.size, percent_of(total, int(l.frame))).evaluated,
     est |-> Estimate(l.size, percent_of(total, int(l.frame))).est]

end_string(total, n) ==
    [seq |-> n, kind |-> "end", frame |-> "", total |-> total,
     percent |-> Frac(0, 1), divisor |-> 1, evaluated |-> FALSE,
     est |-> Frac(0, 1)]

\* the lines read since a stop that was requested while the process ran
Late(pre, fra) ==
    IF stoprequest /\ late.at \in RunPcs
    THEN [late EXCEPT !.pre = @ + pre, !.fra = @ + fra]
    ELSE late

\* event '-INPUT-' (lines 519-546): mediainfo's values of the chosen file are
\* stored into the video_metadata dict, in place
J_LoadInput ==
    /\ gui_pc = "read"
    /\ \E f \in Files : run' = [run EXCEPT !.video_metadata = f]
    /\ gui_pc' = "poll"
    /\ UNCHANGED <<encode_list, encode_queue, encode_event, stoprequest,
                   encode_running, encode_queue_active, pc, job_id, process,
                   overlap, next_uuid, starts, killed, stop_src, emitted,
                   last_op>>

\* event 'Start encode' (lines 693-709): the job dict holds video_metadata
\* itself ("metadata": video_metadata), not a copy of it; params.enqueued
\* remembers its content at this moment.  The observer adds one job.
J_StartEncode ==
    /\ gui_pc = "read"
    /\ encode_list = <<>>
    /\ video_metadata.contains_video
    /\ \E te \in TestEncodes :
          run' = [run EXCEPT !.params = [test_encode |-> te,
                                         enqueued |-> video_metadata]]
    /\ encode_list' = Append(encode_list, [uuid |-> next_uuid, status |-> waiting])
    /\ encode_queue' = build_encode_queue(encode_queue, encode_list')
    /\ next_uuid' = next_uuid + 1
    /\ gui_pc' = "poll"
    /\ UNCHANGED <<encode_event, stoprequest, encode_running,
                   encode_queue_active, pc, job_id, process, overlap, starts,
                   killed, stop_src, emitted, last_op>>

\* event 'Stop encode' (lines 711-714): stoprequest.set(), pause_queue()
J_StopEncode ==
    /\ gui_pc = "read"
    /\ stoprequest' = TRUE
    /\ stop_src' = (IF stoprequest THEN stop_src
                    ELSE IF pc \in RunPcs THEN "fresh" ELSE "stale")
    /\ run' = [run EXCEPT !.late = IF stoprequest THEN @
                                   ELSE [at |-> pc, pre |-> 0, fra |-> 0]]
    /\ encode_queue_active' = pause_queue(encode_queue_active)
    /\ gui_pc' = "poll"
    /\ UNCHANGED <<encode_list, encode_queue, encode_event, encode_running,
                   pc, job_id, process, overlap, next_uuid, starts, killed,
                   emitted, last_op>>

\* lines 733-755, the end of every iteration of the event loop:
\* status_deque.popleft() into the status box (IndexError: nothing to show),
\* then one job event, if any
J_Poll ==
    /\ gui_pc \in {"read", "poll"}
    /\ run' = (IF status_deque = <<>> THEN run
               ELSE [run EXCEPT !.shown = Head(status_deque).seq,
                                !.status_deque = Tail(@)])
    /\ encode_list' = PolledList(encode_list)
    /\ encode_event' = PolledEvents
    /\ gui_pc' = "read"
    /\ UNCHANGED <<encode_queue, stoprequest, encode_running,
                   encode_queue_active, pc, job_id, process, overlap,
                   next_uuid, starts, killed, stop_src, emitted, last_op>>

\* lines 104-124 for a job: total_frames is test_encode, or
\* int(metadata["frame_count"]) read through the job's reference to
\* video_metadata (int(None) raises TypeError: the thread dies before the
\* started event); then the started event, encode_running.set() and Popen
\* (which raises when the encoder cannot be launched)
J_Take ==
    /\ pc = "get"
    /\ encode_queue # <<>>
    /\ Head(encode_queue).kind = "job"
    /\ encode_queue' = Tail(encode_queue)
    /\ job_id' = Head(encode_queue).uuid
    /\ IF params.test_encode = 0 /\ ~IsNumeral(video_metadata.frame_count)
       THEN /\ pc' = "crashed"
            /\ run' = [run EXCEPT !.error = "TypeError"]
            /\ UNCHANGED <<encode_event, encode_running, starts, killed,
                           emitted, process>>
       ELSE /\ encode_event' = Append(encode_event,
                                      [uuid |-> job_id', event |-> started])
            /\ encode_running' = TRUE
            /\ starts' = [starts EXCEPT ![job_id'] = @ + 1]
            /\ killed' = "no"
            /\ emitted' = [uuid |-> job_id', event |-> started]
            /\ LET total == IF params.test_encode # 0 THEN params.test_encode
                            ELSE int(video_metadata.frame_count)
               IN \/ /\ process' = "running"
                     /\ pc' = "preamble"
                     /\ run' = [run EXCEPT !.total_frames = total]
                  \/ /\ pc' = "crashed"
                     /\ run' = [run EXCEPT !.total_frames = total,
                                           !.error = "OSError"]
                     /\ process' = process
    /\ UNCHANGED <<encode_list, stoprequest, encode_queue_active, overlap,
                   gui_pc, next_uuid, stop_src, last_op>>

\* lines 129-135: for line in process.stdout: a line that does not start with
\* "fra" is collected, the first "fra" line is consumed and ends the loop, as
\* does the end of the stream; stoprequest is not looked at
J_ReadPreamble ==
    /\ pc = "preamble"
    /\ \/ /\ nread < MaxLines
          /\ run' = [run EXCEPT !.nread = @ + 1, !.late = Late(1, 0)]
          /\ pc' \in {"preamble", "progress"}
          /\ process' = process
       \/ /\ pc' = "progress"
          /\ process' = "exited"
          /\ UNCHANGED run
    /\ UNCHANGED <<encode_list, encode_queue, encode_event, stoprequest,
                   encode_running, encode_queue_active, job_id, overlap,
                   gui_pc, next_uuid, starts, killed, stop_src, emitted,
                   last_op>>

\* lines 150-178: line = process.stdout.readline(); '' or a line that does
\* not start with "fra" ends the loop; a "fra" line is split, its fields are
\* converted (int() raises ValueError on a field that is no number: the
\* thread dies) and the sample is appended to status_deque
J_ReadLine ==
    /\ pc = "readline"
    /\ \/ /\ run' = [run EXCEPT !.line = EndOfStream]
          /\ pc' = "post"
          /\ process' \in {process, "exited"}
       \/ /\ nread < MaxLines
          /\ process' = process
          /\ \/ /\ run' = [run EXCEPT !.line = OtherLine, !.nread = @ + 1,
                                      !.late = Late(0, 1)]
                /\ pc' = "post"
             \/ \E l \in ProgressLines :
                   LET raised == Estimate(l.size,
                                          percent_of(total_frames,
                                                     int(l.frame))).error
                   IN IF raised = NoError
                      THEN /\ run' = [run EXCEPT
                                        !.line = l, !.nread = @ + 1,
                                        !.late = Late(0, 1),
                                        !.published = @ + 1,
                                        !.status_deque =
                                            append(@, Sample(l, total_frames,
                                                             published + 1))]
                           /\ pc' = "progress"
                      ELSE /\ run' = [run EXCEPT
                                        !.line = l, !.nread = @ + 1,
                                        !.late = Late(0, 1),
                                        !.error = raised]
                           /\ pc' = "crashed"
    /\ UNCHANGED <<encode_list, encode_queue, encode_event, stoprequest,
                   encode_running, encode_queue_active, job_id, overlap,
                   gui_pc, next_uuid, starts, killed, stop_src, emitted,
                   last_op>>

\* lines 180-210: MediaInfo.parse of the output file (raises when the file
\* cannot be inspected: the thread dies), metadata["size"] read through the
\* job's reference, the flags cleared, the finished event, end_string
\* appended to status_deque
J_Finish ==
    /\ pc = "post"
    /\ \/ /\ encode_running' = FALSE
          /\ stoprequest' = FALSE
          /\ stop_src' = "none"
          /\ encode_event' = Append(encode_event,
                                    [uuid |-> job_id, event |-> finished])
          /\ emitted' = [uuid |-> job_id, event |-> finished]
          /\ run' = [run EXCEPT
                       !.published = @ + 1,
                       !.status_deque =
                           append(@, end_string(total_frames, published + 1))]
          /\ pc' = "gate"
       \/ /\ pc' = "crashed"
          /\ run' = [run EXCEPT !.error = "MediaInfoError"]
          /\ UNCHANGED <<encode_running, stoprequest, stop_src, encode_event,
                         emitted>>
    /\ UNCHANGED <<encode_list, encode_queue, encode_queue_active, job_id,
                   process, overlap, gui_pc, next_uuid, starts, killed,
                   last_op>>

JobNext ==
    \/ J_LoadInput \/ J_StartEncode \/ J_StopEncode \/ J_Poll
    \/ Gate \/ J_Take \/ J_ReadPreamble \/ CheckStop \/ J_ReadLine \/ J_Finish

JobSpec == Init /\ [][JobNext]_vars

\* ==================================================================== claims
StatusCount(st) ==
    Cardinality({i \in 1..Len(encode_list) : encode_list[i].status = st})

StatusOf(list, id) ==
    LET i == CHOOSE k \in 1..Len(list) : list[k].uuid = id IN list[i].status

EventPending(id) == \E i \in 1..Len(encode_event) : encode_event[i].uuid = id

ShutdownPcs == {"sd_clear", "sd_put", "sd_active", "join", "closed"}

\* C1: in every reachable state, whatever the interleaving of the observer's
\* actions with the worker, at most one entry of encode_list has the status
\* started.
C1_AtMostOneRunning == StatusCount(started) <= 1

\* C1 witness: two jobs are listed, one finished and the other started.
C1_Witness ==
    /\ Len(encode_list) = 2
    /\ StatusCount(started) = 1
    /\ StatusCount(finished) = 1

\* C2: whenever the worker spawns the process of the next job, the process of
\* the previous job has already exited (no two encoder processes are alive
\* at once).
C2_OneProcessAlive == ~overlap

\* C3: while the queue is paused (encode_queue_active cleared) the worker
\* emits no started event.
C3_NoStartWhilePaused == [][(Runs' > Runs) => encode_queue_active]_vars

\* C4: the 'Pause queue' handler (toggle_queue and the put of _skip) leaves the
\* cancel flag, the running process and the worker's position untouched, and
\* no run is ever killed on a request that 'Stop encode' or the shutdown did
\* not make.
C4_PauseKeepsJob ==
    /\ [][(PauseQueue \/ PauseQueuePut) =>
            UNCHANGED <<stoprequest, process, pc, killed, encode_event>>]_vars
    /\ [](killed # "none")

\* C4 witness: the queue has just been paused by 'Pause queue' while a job is
\* in flight and no stop was requested.
C4_Witness ==
    /\ gui_pc = "pause2"
    /\ ~encode_queue_active
    /\ pc \in RunPcs
    /\ ~stoprequest

\* C5: a job whose run was ended by the kill on the cancel flag has, once all
\* its events are delivered, a terminal status other than finished (Cancelled).
C5_CancelledNotFinished ==
    (/\ killed \in {"fresh", "stale"}
     /\ pc \in {"gate", "get"}
     /\ job_id \in UuidsOf(encode_list)
     /\ ~EventPending(job_id))
    => StatusOf(encode_list, job_id) # finished

\* a job cancelled by 'Stop encode' has ended and the worker is back at the
\* top of its loop
CancelEnded == pc = "gate" /\ killed \in {"fresh", "stale"}

\* C6 (as claimed): after a job cancelled by 'Stop encode' has ended, the
\* cancel does not leave the worker blocked while a Waiting job is queued.
C6_NotBlockedAfterCancel ==
    ~(/\ CancelEnded
      /\ gui_pc = "read"
      /\ ~encode_queue_active
      /\ JobCount(encode_queue) > 0)

\* C6 (amended): after a job cancelled by 'Stop encode' has ended the worker is
\* back at the top of its loop, and once the queue is active with a job
\* queued, a job is started, unless the queue is paused or emptied first.
C6_StartsOnceActive ==
    (CancelEnded /\ encode_queue_active /\ JobCount(encode_queue) > 0)
        ~> \/ pc \in {"preamble", "crashed"}
           \/ ~encode_queue_active
           \/ JobCount(encode_queue) = 0

\* C6 witness: a cancelled job has ended, the queue has been resumed and a
\* Waiting job is queued.
C6_Witness ==
    /\ CancelEnded
    /\ killed = "fresh"
    /\ encode_queue_active
    /\ JobCount(encode_queue) > 0
    /\ gui_pc = "read"

\* C7: no run is killed on a stop request that was issued before the run
\* started (while another job, or no job, was running).
C7_NoStaleKill == killed # "stale"

\* C8: once the shutdown has begun (stop flag set), the worker emits no
\* started event.
C8_NoStartAfterShutdown ==
    [][(gui_pc \in ShutdownPcs) => (Runs' = Runs)]_vars

ShutdownIssued == gui_pc = "join"

WorkerExited == pc \in {"done", "crashed"}

\* C9: after the shutdown steps (stop flag set, queue cleared, sentinel put,
\* queue set active) the worker thread eventually ends, given that it is
\* scheduled and that every read of a running process's output returns.
C9_ShutdownExits == ShutdownIssued ~> WorkerExited

\* what the worker does guarantee: it ends once the output of the job it is
\* running ends, whether or not the stop flag of the shutdown is still set
C9_ExitsWhenOutputEnds ==
    SF_vars(StreamEnds) => (ShutdownIssued ~> WorkerExited)

\* C10: a job whose status is finished keeps that status for as long as it is
\* in the list.
C10_TerminalIsFinal ==
    [][\A id \in UuidsOf(encode_list) \cap UuidsOf(encode_list') :
         StatusOf(encode_list, id) = finished
            => StatusOf(encode_list', id) = finished]_vars

\* positions of the worker between the dequeue of a job and the put of its
\* finished event
ExecPcs == RunPcs \cup {"emit_finished"}

\* C11: while the worker executes a job (from its dequeue to its finished
\* event) no step of the observer takes that job out of encode_list.
C11_RunningJobStays ==
    [][(pc \in ExecPcs /\ job_id \in UuidsOf(encode_list))
         => job_id \in UuidsOf(encode_list')]_vars

\* ------------------------------------------------ claims on the list handlers
IndexOf(list, id) == CHOOSE k \in 1..Len(list) : list[k].uuid = id

\* list with the entries at i and j exchanged
Swap(list, i, j) ==
    [k \in 1..Len(list) |->
        IF k = i THEN list[j] ELSE IF k = j THEN list[i] ELSE list[k]]

\* list without the entries whose uuid is in sel and whose status is not st
Dropped(list, sel, st) ==
    LET Keep(job) == job.uuid \notin sel \/ job.status = st
    IN SelectSeq(list, Keep)

\* the job selected for the last UP or DOWN
Moved == CHOOSE id \in last_op.sel : TRUE

\* C12: 'Remove task' leaves every selected job whose status is started in
\* the list, removes exactly the selected jobs of any other status, and keeps
\* the order of the jobs that remain (a selected started job alone leaves the
\* list as it was).
C12_RemoveSkipsRunning ==
    last_op.name = "Remove task"
        => encode_list = Dropped(last_op.before, last_op.sel, started)

\* C12 witness: a started job and a job of another status were selected, the
\* first stayed and the second was removed.
C12_Witness ==
    /\ last_op.name = "Remove task"
    /\ Len(last_op.before) = 3
    /\ Len(encode_list) = 2
    /\ \E id \in last_op.sel : StatusOf(last_op.before, id) = started
    /\ \E id \in last_op.sel : StatusOf(last_op.before, id) = finished

\* the job id exchanged with its successor / predecessor, if it has one
SwapDown(list, id) ==
    LET i == IndexOf(list, id)
    IN IF i < Len(list) THEN Swap(list, i, i + 1) ELSE list

SwapUp(list, id) ==
    LET i == IndexOf(list, id)
    IN IF i > 1 THEN Swap(list, i, i - 1) ELSE list

\* C13: 'DOWN' on the job at index i exchanges it with its immediate successor
\* only, every other job keeping its index; on the last job it changes
\* nothing.
C13_DownSwapsNeighbour ==
    last_op.name = "DOWN" => encode_list = SwapDown(last_op.before, Moved)

\* C14: 'UP' on the job at index i exchanges it with its immediate predecessor
\* only, every other job keeping its index; on the first job it changes
\* nothing.
C14_UpSwapsNeighbour ==
    last_op.name = "UP" => encode_list = SwapUp(last_op.before, Moved)

\* C14 witness: 'UP' was pressed on the last of three jobs, which is now the
\* second.
C14_Witness ==
    /\ last_op.name = "UP"
    /\ Len(last_op.before) = 3
    /\ IndexOf(last_op.before, Moved) = 3
    /\ encode_list[2].uuid = Moved

\* the last handler was 'UP' or 'DOWN' on a job whose status was not waiting
MovedNonWaiting ==
    /\ last_op.name \in {"UP", "DOWN"}
    /\ StatusOf(last_op.before, Moved) # waiting

\* the queue items of the waiting entries of list, in list order
WaitingItems(list) ==
    LET IsWaiting(job) == job.status = waiting
        w == SelectSeq(list, IsWaiting)
    IN [i \in 1..Len(w) |-> JobItem(w[i].uuid)]

\* C15 (as claimed): 'UP' or 'DOWN' on a job that is started or finished is
\* rejected: the order of encode_list and the contents of encode_queue stay
\* as they were.
C15_NonWaitingMoveRejected ==
    MovedNonWaiting
        => encode_list = last_op.before /\ encode_queue = last_op.queue

\* C15 (amended): 'UP' or 'DOWN' on a job that is started or finished is not
\* rejected; the job may change its place, all other jobs keep their relative
\* order, and the rebuilt encode_queue holds the waiting jobs in that order.
C15_MoveKeepsOthers ==
    MovedNonWaiting
        => /\ Dropped(encode_list, {Moved}, "") = Dropped(last_op.before, {Moved}, "")
           /\ Len(encode_list) = Len(last_op.before)
           /\ encode_queue = WaitingItems(last_op.before)

\* C15 witness: a started job was moved to another place in the list.
C15_Witness ==
    /\ MovedNonWaiting
    /\ StatusOf(last_op.before, Moved) = started
    /\ encode_list # last_op.before

\* the uuids of the job items on q
QueuedIds(q) == {q[i].uuid : i \in {k \in 1..Len(q) : q[k].kind = "job"}}

\* C16: the jobs of encode_list have distinct uuids, a 'Start encode' adds
\* exactly the new uuid, 'UP' and 'DOWN' leave the listed uuids as they were
\* (the list is a permutation of the enqueued jobs), and encode_queue never
\* holds two items with the same uuid.
C16_PermutationNoDuplicates ==
    /\ Cardinality(UuidsOf(encode_list)) = Len(encode_list)
    /\ Cardinality(QueuedIds(encode_queue)) = JobCount(encode_queue)
    /\ last_op.name \in {"UP", "DOWN"}
         => /\ UuidsOf(encode_list) = UuidsOf(last_op.before)
            /\ Len(encode_list) = Len(last_op.before)
    /\ last_op.name = "Start encode"
         => /\ UuidsOf(encode_list) = UuidsOf(last_op.before) \cup last_op.sel
            /\ Len(encode_list) = Len(last_op.before) + 1

\* C16 witness: three jobs were enqueued and a 'DOWN' changed their order.
C16_Witness ==
    /\ last_op.name = "DOWN"
    /\ UuidsOf(last_op.before) = 1..MaxList
    /\ encode_list # last_op.before
    /\ Len(encode_queue) > 1

\* --------------------------------------------- claims on the dequeue order
\* the uuid of the job the worker is about to take with encode_queue.get()
Dequeued == Head(encode_queue).uuid

\* C17: every job the worker dequeues and starts is in encode_list with the
\* status waiting at the moment it is dequeued.
C17_StartsOnlyWaiting ==
    [][StartJob => /\ Dequeued \in UuidsOf(encode_list)
                   /\ StatusOf(encode_list, Dequeued) = waiting]_vars

\* C18: whenever the worker dequeues a job, that job is the first entry of
\* encode_list with the status waiting; entries before it that still show
\* waiting only because an event of theirs has not been applied yet are not
\* counted against it.
C18_DequeuesFirstWaiting ==
    [][StartJob =>
         /\ Dequeued \in UuidsOf(encode_list)
         /\ StatusOf(encode_list, Dequeued) = waiting
         /\ \A k \in 1..(IndexOf(encode_list, Dequeued) - 1) :
               \/ encode_list[k].status # waiting
               \/ EventPending(encode_list[k].uuid)]_vars

\* ------------------------------------------- claims on the worker's events
\* C19: the worker loop is ended by the shutdown sentinel only: a process
\* that cannot be spawned or an output file that cannot be inspected does not
\* end it.
C19_OnlySentinelEnds ==
    [][(WorkerExited' /\ ~WorkerExited)
         => /\ pc = "get"
            /\ encode_queue # <<>>
            /\ Head(encode_queue) = _sentinel
            /\ pc' = "done"]_vars

\* an event is put on encode_event in this step
EventPut == Len(encode_event') > Len(encode_event)

\* C20: the events put on encode_event alternate strictly: a started event
\* follows no event or a finished event, and a finished event follows the
\* started event of the same job.
C20_EventsAlternate ==
    [][EventPut =>
         LET e == encode_event'[Len(encode_event')]
         IN /\ encode_event' = Append(encode_event, e)
            /\ emitted' = e
            /\ e.event \in {started, finished}
            /\ e.event = started => emitted.event # started
            /\ e.event = finished
                 => emitted = [uuid |-> e.uuid, event |-> started]]_vars

\* C20 witness: two executions have been started and the finished event of
\* the second has been put.
C20_Witness ==
    /\ Runs = 2
    /\ pc = "gate"
    /\ emitted.event = finished

\* C26: the worker emits at most one started event per job uuid, whatever
\* rebuilds of the queue are interleaved with its dequeue and with the delayed
\* delivery of the started event.
C26_StartedOncePerJob == \A id \in Ids : starts[id] <= 1

\* job id is in the list with the status waiting and was never started
NeverStarted(id) ==
    /\ id \in UuidsOf(encode_list)
    /\ StatusOf(encode_list, id) = waiting
    /\ starts[id] = 0

\* the provisos of C28: the output of every process ends, the worker gets
\* through the check of encode_queue_active if the queue is active again and
\* again, the queue is not left paused for ever and no shutdown is issued
C28_Provisos ==
    /\ SF_vars(StreamEnds)
    /\ SF_vars(Gate)
    /\ []<>encode_queue_active
    /\ [](gui_pc \notin ShutdownPcs)

\* C28: a job that is in the list with the status waiting is eventually
\* started, so while such a job is listed and no shutdown was issued the worker
\* thread has not ended.
C28_WaitingJobHasWorker ==
    \A id \in Ids :
        (NeverStarted(id) /\ gui_pc \notin ShutdownPcs) => ~WorkerExited

\* the same as a property of whole runs: under the provisos, every job that
\* stays in the list with the status waiting eventually gets its started event
C28_WaitingEventuallyStarted ==
    C28_Provisos
        => \A id \in Ids :
             NeverStarted(id) ~> (starts[id] > 0 \/ id \notin UuidsOf(encode_list))

\* what the worker does guarantee: the same, as long as the worker thread is
\* not ended by an exception
C28_StartedUnlessThreadDies ==
    (C28_Provisos /\ [](pc # "crashed"))
        => \A id \in Ids :
             NeverStarted(id) ~> (starts[id] > 0 \/ id \notin UuidsOf(encode_list))

\* stop was requested while the process of the job ran
StopWhileRunning == late.at \in RunPcs

\* C21 (as stated): after a stop requested while the job's process runs, in
\* the preamble or in the progress phase, the worker reads at most one further
\* line of output before it kills the process and leaves the reading loop.
C21_OneLineAfterStop == StopWhileRunning => late.pre + late.fra <= 1

\* C21 (amended): a stop requested in the progress phase lets the worker read
\* at most one further line; a stop requested in the preamble is not looked at
\* before the preamble loop ends, and then no line is read by the progress
\* loop.
C21_OneProgressLineAfterStop ==
    /\ (StopWhileRunning /\ late.at # "preamble") => late.pre + late.fra <= 1
    /\ late.at = "preamble" => late.fra = 0

\* a stop arrived between the check and the read: one line more was read and
\* the process was killed at the next check
C21_Witness ==
    /\ late.at = "readline"
    /\ late.fra = 1
    /\ pc = "post"
    /\ killed = "fresh"
    /\ process = "killed"

\* C22: status_deque is a single slot in which the latest sample wins: it never
\* holds more than one sample, the sample it holds is the one published last
\* (publishing overwrites the unread one), and what popleft hands to the
\* observer is newer than everything the observer has seen (samples may be
\* skipped, never repeated or reordered).
C22_SingleSlotLatestWins ==
    /\ Len(status_deque) <= 1
    /\ shown <= published
    /\ status_deque # <<>> =>
          /\ Head(status_deque).seq = published
          /\ Head(status_deque).seq > shown

\* the second progress sample has overwritten the first, which the observer
\* never read
C22_Witness ==
    /\ published = 2
    /\ shown = 0
    /\ Len(status_deque) = 1
    /\ Head(status_deque).kind = "progress"
    /\ Head(status_deque).seq = 2

\* C23: a job whose frame count is unknown (frame_count is None, no
\* test_encode) is run all the same: the worker is not stopped by it.
C23_UnknownFrameCountRuns == error # "TypeError"

\* C24: a progress line whose size field is no number (total frames known,
\* percent > 0) does not end the progress phase or the worker: the failure to
\* convert it is never propagated.
C24_BadSizeFieldDegrades == error # "ValueError"

\* the sample in status_deque is the one made from the line last read
SampleOfLine ==
    /\ status_deque # <<>>
    /\ Head(status_deque).kind = "progress"
    /\ line.kind = "fra"
    /\ error = NoError

\* C25: for a progress line with frame number d and a known frame count
\* t > 0, the published percent p is 100 - ((t - d)/t * 100), that is
\* p * t = 100 * d; the size estimate is (size * 100 / p) / 1024 and is
\* evaluated exactly when p > 0; no division by zero happens, for p = 0 and
\* d = 0 included.
C25_PercentAndEstimate ==
    /\ error # "ZeroDivisionError"
    /\ (SampleOfLine /\ total_frames > 0) =>
          LET s == Head(status_deque)
              d == int(line.frame)
              t == total_frames
              cur == int(replace_kB(line.size)[1])
          IN /\ s.percent.den # 0
             /\ s.percent.num * t = 100 * d * s.percent.den
             /\ s.evaluated <=> s.percent.num > 0
             /\ s.divisor # 0
             /\ s.divisor = (IF d = 0 THEN 1 ELSE d)
             /\ s.evaluated =>
                   /\ s.est.den # 0
                   /\ s.est.num * s.percent.num * 1024 =
                         cur * 100 * s.percent.den * s.est.den

\* frame 1 of 2 with 2 kB written: 50 percent, the estimate is evaluated
C25_Witness ==
    /\ SampleOfLine
    /\ total_frames = 2
    /\ line.frame = "1"
    /\ Head(status_deque).evaluated
    /\ Head(status_deque).percent = Frac(100, 2)
    /\ Head(status_deque).est = Frac(2 * 100 * 2, 100 * 1024)

\* C27: the frame count and the source size the worker reads when it runs
\* the job are those the job was enqueued with, whatever input the observer
\* has loaded since.
C27_FieldsFixedAtEnqueue ==
    [][/\ (J_Take /\ params.test_encode = 0) =>
             video_metadata.frame_count = params.enqueued.frame_count
       /\ J_Finish => video_metadata.size = params.enqueued.size]_vars

====
